---- MODULE Spec2Model ----
(***************************************************************************)
(* Todo API (FastAPI + SQLAlchemy 2.0 async ORM on SQLite).                *)
(*                                                                         *)
(* The model follows one HTTP request at a time through the three steps    *)
(* FastAPI takes for it: the get_db dependency opens a session, the route  *)
(* handler runs to its return or to the exception it raises, and get_db's  *)
(* exit closes the session.  The committed content of the todos table, the *)
(* clock func.now() reads and the session are the state.                   *)
(***************************************************************************)
EXTENDS Integers, Sequences, FiniteSets, TLC

\* ---- bounds of the model ----
MaxCreates == 2          \* POST /todos requests that insert, per behaviour
MaxTime == 1             \* ticks of the one-second clock behind func.now()

\* ---- program constants ----
MaxTitleLen == 200       \* String(200)
DefaultSkip == 0
DefaultLimit == 20

\* ---- values ----
\* A nullable value is None or Some(v); JSON null and SQL NULL are both None.
None == <<>>
Some(v) == <<v>>

S10 == "aaaaaaaaaa"
S50 == S10 \o S10 \o S10 \o S10 \o S10
LongTitle == S50 \o S50 \o S50 \o S50 \o "a"     \* 201 characters

Fields == {"title", "description", "completed"}

\* A JSON request body over the three fields: the set of keys present and
\* their values.  A key that is absent carries None, the value pydantic's
\* Optional fields default to.
Body(fields_set, title, description, completed) ==
    [fields_set |-> fields_set,
     title |-> IF "title" \in fields_set THEN title ELSE None,
     description |-> IF "description" \in fields_set THEN description ELSE None,
     completed |-> IF "completed" \in fields_set THEN completed ELSE None]

\* POST bodies: no title, a null title, a title alone, a null completed, an
\* explicit completed, and all three fields with a title of 201 characters
CreateBodies ==
    { Body({}, None, None, None),
      Body({"title"}, None, None, None),
      Body({"title"}, Some("a"), None, None),
      Body({"title", "completed"}, Some("a"), None, None),
      Body({"title", "completed"}, Some("a"), None, Some(FALSE)),
      Body(Fields, Some(LongTitle), Some("d"), Some(TRUE)) }

\* PUT bodies: every set of keys, each key with null or with one value
UpdateBodies ==
    { Body(S, t, d, c) :
        S \in SUBSET Fields,
        t \in {None, Some(LongTitle)},
        d \in {None},
        c \in {None, Some(TRUE)} }

Ids == 1..MaxCreates
Skips == {DefaultSkip, 1, -1}
Limits == {DefaultLimit, 1, -1}

VARIABLES
    table,          \* committed rows of "todos": id -> row
    now,            \* the clock CURRENT_TIMESTAMP reads, in seconds
    session,        \* the AsyncSession of the request in progress
    open_sessions,  \* sessions opened and not yet closed
    acquired,       \* sessions opened for the request in progress
    pc,             \* "idle", "handler" or "teardown"
    req,            \* what the handler in progress was called with
    response,       \* its response; status 0 while there is none
    pre,            \* the table as it was when the request arrived
    assigned        \* ids given out by create_todo, oldest first

vars == <<table, now, session, open_sessions, acquired, pc, req, response,
          pre, assigned>>

NoRequest == [op |-> "none"]
NoResponse == [status |-> 0]

\* async_sessionmaker(engine, class_=AsyncSession, expire_on_commit=False)()
AsyncSessionLocal == [state |-> "open", in_transaction |-> FALSE, dirty |-> {}]

\* AsyncSession.close(): roll back what was not committed, drop every object
Close(s) == [state |-> "closed", in_transaction |-> FALSE, dirty |-> {}]

\* Session.execute() begins the session's transaction
Executed(s) == [s EXCEPT !.in_transaction = TRUE]

Init ==
    /\ table = << >>
    /\ now = 0
    /\ session = Close(AsyncSessionLocal)
    /\ open_sessions = 0
    /\ acquired = 0
    /\ pc = "idle"
    /\ req = NoRequest
    /\ response = NoResponse
    /\ pre = << >>
    /\ assigned = << >>

\* The clock advances on its own.  A handler reads it once, so a tick while
\* a request is in progress is the same as one just before or just after it.
Tick ==
    /\ pc = "idle"
    /\ now < MaxTime
    /\ now' = now + 1
    /\ UNCHANGED <<table, session, open_sessions, acquired, pc, req, response,
                   pre, assigned>>

\* get_db up to its yield: a request has arrived and its session is opened.
get_db_enter ==
    /\ pc = "idle"
    /\ session' = AsyncSessionLocal
    /\ open_sessions' = open_sessions + 1
    /\ acquired' = acquired + 1
    /\ response' = NoResponse
    /\ pre' = table
    /\ pc' = "handler"
    /\ UNCHANGED <<table, now, req, assigned>>

\* get_db without its finally or its async with: an exception out of the
\* handler leaves the session as it is
get_db_exit_no_finally ==
    /\ pc = "teardown"
    /\ session' = IF response.status < 400 THEN Close(session) ELSE session
    /\ open_sessions' = IF response.status < 400 THEN open_sessions - 1
                        ELSE open_sessions
    /\ acquired' = 0
    /\ req' = NoRequest
    /\ response' = [status |-> response.status]
    /\ pre' = << >>
    /\ pc' = "idle"
    /\ UNCHANGED <<table, now, assigned>>

\* get_db after its yield: the finally clause and the async with both close
\* the session, whether the handler returned or raised.  The response goes
\* out; its status is all that is kept of the request.
get_db_exit ==
    /\ pc = "teardown"
    /\ session' = Close(session)
    /\ open_sessions' = open_sessions - 1
    /\ acquired' = 0
    /\ req' = NoRequest
    /\ response' = [status |-> response.status]
    /\ pre' = << >>
    /\ pc' = "idle"
    /\ UNCHANGED <<table, now, assigned>>

\* select(Todo) without its where clause
scalar_first(t, todo_id) ==
    IF DOMAIN t # {} THEN Some(t[CHOOSE i \in DOMAIN t : TRUE]) ELSE None

\* select(Todo).where(Todo.id == todo_id) ... scalar_one_or_none()
scalar_one_or_none(t, todo_id) ==
    IF todo_id \in DOMAIN t THEN Some(t[todo_id]) ELSE None

NotFoundWithId(todo_id) ==
    [status |-> 404,
     detail |-> "Todo with id " \o ToString(todo_id) \o " not found"]

NotFoundPlain == [status |-> 404, detail |-> "Todo not found"]

\* ORDER BY created_at DESC: every arrangement of the rows in which created_at
\* never increases; SQL leaves the order of rows with equal keys open.
OrderByCreatedAtDesc(t) ==
    { s \in [1..Cardinality(DOMAIN t) -> DOMAIN t] :
        /\ \A i, j \in DOMAIN s : i # j => s[i] # s[j]
        /\ \A i, j \in DOMAIN s :
              i < j => t[s[i]].created_at >= t[s[j]].created_at }

Min(a, b) == IF a < b THEN a ELSE b

\* OFFSET n: SQLite treats a negative offset as 0
Offset(s, n) == SubSeq(s, (IF n < 0 THEN 0 ELSE n) + 1, Len(s))

\* LIMIT n: SQLite treats a negative limit as no limit
Limit(s, n) == IF n < 0 THEN s ELSE SubSeq(s, 1, Min(n, Len(s)))

list_todos(skip, limit) ==
    /\ pc = "handler"
    /\ req' = [op |-> "list", skip |-> skip, limit |-> limit]
    /\ \E s \in OrderByCreatedAtDesc(table) :
          LET rows == [i \in DOMAIN s |-> table[s[i]]]
          IN  response' = [status |-> 200,
                           body |-> Limit(Offset(rows, skip), limit)]
    /\ session' = Executed(session)
    /\ pc' = "teardown"
    /\ UNCHANGED <<table, now, open_sessions, acquired, pre, assigned>>

get_todo(todo_id) ==
    /\ pc = "handler"
    /\ req' = [op |-> "get", todo_id |-> todo_id]
    /\ LET todo == scalar_one_or_none(table, todo_id)
       IN  response' = IF todo = None THEN NotFoundWithId(todo_id)
                       ELSE [status |-> 200, body |-> todo[1]]
    /\ session' = Executed(session)
    /\ pc' = "teardown"
    /\ UNCHANGED <<table, now, open_sessions, acquired, pre, assigned>>

\* pydantic's check of a POST body against TodoCreate: title is a required
\* str, description is str | None, completed is a bool
TodoCreateValid(body) ==
    /\ "title" \in body.fields_set
    /\ body.title # None
    /\ "completed" \in body.fields_set => body.completed # None

\* a TodoCreate whose completed defaults to True
TodoCreateCompletedTrue(body) ==
    [title |-> body.title,
     description |-> body.description,
     completed |-> IF "completed" \in body.fields_set THEN body.completed
                   ELSE Some(TRUE)]

\* the validated TodoCreate: absent fields take their defaults
TodoCreate(body) ==
    [title |-> body.title,
     description |-> body.description,
     completed |-> IF "completed" \in body.fields_set THEN body.completed
                   ELSE Some(FALSE)]

\* FastAPI answers 422 without calling create_todo; get_db has been entered
request_validation_error(body) ==
    /\ pc = "handler"
    /\ ~TodoCreateValid(body)
    /\ req' = [op |-> "create", body |-> body]
    /\ response' = [status |-> 422]
    /\ pc' = "teardown"
    /\ UNCHANGED <<table, now, session, open_sessions, acquired, pre,
                   assigned>>

Max(S) == CHOOSE m \in S : \A x \in S : x <= m

\* id is an INTEGER PRIMARY KEY without AUTOINCREMENT: SQLite gives a new row
\* one more than the largest rowid in the table, 1 when the table is empty
NextRowid(t) == IF DOMAIN t = {} THEN 1 ELSE Max(DOMAIN t) + 1

\* INSERT INTO todos (title, description, completed): id is generated and
\* both timestamps take their server_default CURRENT_TIMESTAMP
InsertRow(t, todo, clock) ==
    LET id == NextRowid(t)
    IN  t @@ (id :> [id |-> id,
                     title |-> todo.title,
                     description |-> todo.description,
                     completed |-> todo.completed,
                     created_at |-> clock,
                     updated_at |-> clock])

create_todo(body) ==
    /\ pc = "handler"
    /\ Len(assigned) < MaxCreates
    /\ TodoCreateValid(body)
    /\ req' = [op |-> "create", body |-> body]
    /\ LET todo_data == TodoCreate(body)
           todo == [title |-> todo_data.title,
                    description |-> todo_data.description,
                    completed |-> todo_data.completed]
           id == NextRowid(table)
       IN  /\ table' = InsertRow(table, todo, now)
           /\ response' = [status |-> 201, body |-> table'[id]]
           /\ assigned' = Append(assigned, id)
    /\ session' = Executed(session)
    /\ pc' = "teardown"
    /\ UNCHANGED <<now, open_sessions, acquired, pre>>

\* todo_data.model_dump(): absent fields are dumped with their default None
model_dump_all(body) == [f \in Fields |-> body[f]]

\* todo_data.model_dump(exclude_unset=True)
model_dump_exclude_unset(body) == [f \in body.fields_set |-> body[f]]

\* for field, value in update_data.items(): setattr(todo, field, value)
SetAttrs(todo, update_data) ==
    [c \in DOMAIN todo |->
        IF c \in DOMAIN update_data THEN update_data[c] ELSE todo[c]]

\* the columns whose value differs from the loaded one; the unit of work
\* writes only these, and writes nothing when there are none
NetChanges(todo, obj) == {c \in DOMAIN todo : obj[c] # todo[c]}

\* title and completed are Mapped[str] and Mapped[bool]: NOT NULL columns.
\* SQLite does not enforce the length of a VARCHAR(200).
NotNullSatisfied(row) == row.title # None /\ row.completed # None

\* an updated_at column without onupdate=func.now()
UpdateRowNoOnupdate(t, obj, clock) == [t EXCEPT ![obj.id] = obj]

\* UPDATE todos SET <changed columns>, updated_at=CURRENT_TIMESTAMP
UpdateRow(t, obj, clock) ==
    [t EXCEPT ![obj.id] = [obj EXCEPT !.updated_at = clock]]

update_todo(todo_id, body) ==
    /\ pc = "handler"
    /\ req' = [op |-> "update", todo_id |-> todo_id, body |-> body]
    /\ LET todo == scalar_one_or_none(table, todo_id)
       IN  IF todo = None
           THEN /\ response' = NotFoundPlain
                /\ session' = Executed(session)
                /\ table' = table
           ELSE LET update_data == model_dump_exclude_unset(body)
                    obj == SetAttrs(todo[1], update_data)
                IN  IF NetChanges(todo[1], obj) = {}
                    THEN \* commit() has nothing to flush; refresh()
                         /\ table' = table
                         /\ response' = [status |-> 200,
                                         body |-> table'[obj.id]]
                         /\ session' = Executed(session)
                    ELSE IF ~NotNullSatisfied(obj)
                    THEN \* IntegrityError out of commit(): nothing is written
                         /\ table' = table
                         /\ response' = [status |-> 500]
                         /\ session' = [Executed(session) EXCEPT
                                           !.dirty = {obj}]
                    ELSE \* commit() flushes the UPDATE; refresh()
                         /\ table' = UpdateRow(table, obj, now)
                         /\ response' = [status |-> 200,
                                         body |-> table'[obj.id]]
                         /\ session' = Executed(session)
    /\ pc' = "teardown"
    /\ UNCHANGED <<now, open_sessions, acquired, pre, assigned>>

\* db.delete(todo) that is never committed
DeleteRowNoCommit(t, todo_id) == t

\* DELETE FROM todos WHERE id = ?
DeleteRow(t, todo_id) == [i \in DOMAIN t \ {todo_id} |-> t[i]]

delete_todo(todo_id) ==
    /\ pc = "handler"
    /\ req' = [op |-> "delete", todo_id |-> todo_id]
    /\ LET todo == scalar_one_or_none(table, todo_id)
       IN  IF todo = None
           THEN /\ response' = NotFoundPlain
                /\ table' = table
           ELSE /\ table' = DeleteRow(table, todo[1].id)
                /\ response' = [status |-> 204]
    /\ session' = Executed(session)
    /\ pc' = "teardown"
    /\ UNCHANGED <<now, open_sessions, acquired, pre, assigned>>

Next ==
    \/ Tick
    \/ get_db_enter
    \/ \E skip \in Skips, limit \in Limits : list_todos(skip, limit)
    \/ \E todo_id \in Ids : get_todo(todo_id)
    \/ \E body \in CreateBodies : request_validation_error(body)
    \/ \E body \in CreateBodies : create_todo(body)
    \/ \E todo_id \in Ids, body \in UpdateBodies : update_todo(todo_id, body)
    \/ \E todo_id \in Ids : delete_todo(todo_id)
    \/ get_db_exit

Spec == Init /\ [][Next]_vars

(***************************************************************************)
(* Properties                                                              *)
(***************************************************************************)

\* the handler of the request in progress has returned or raised
Returned == pc = "teardown"

Range(s) == {s[k] : k \in DOMAIN s}

Succeeded == response.status \in {200, 201, 204}

\* C1: a successful update(id, patch) overwrites exactly the fields present in
\* the patch (a null description clears it) and leaves the absent fields, the
\* id, created_at and every other stored todo as they were.
C1_PartialUpdate ==
    (Returned /\ req.op = "update" /\ response.status = 200) =>
        /\ req.todo_id \in DOMAIN pre
        /\ DOMAIN table = DOMAIN pre
        /\ \A f \in Fields :
              table[req.todo_id][f] =
                 IF f \in req.body.fields_set THEN req.body[f]
                 ELSE pre[req.todo_id][f]
        /\ table[req.todo_id].id = pre[req.todo_id].id
        /\ table[req.todo_id].created_at = pre[req.todo_id].created_at
        /\ \A i \in DOMAIN pre \ {req.todo_id} : table[i] = pre[i]

\* a patch of the description alone has cleared it while another todo is stored
C1_Witness ==
    /\ Returned /\ req.op = "update" /\ response.status = 200
    /\ req.body.fields_set = {"description"}
    /\ pre[req.todo_id].description # None
    /\ table[req.todo_id].description = None
    /\ Cardinality(DOMAIN pre) >= 2

FieldsChanged ==
    {f \in Fields : table[req.todo_id][f] # pre[req.todo_id][f]}

C3_RowsSatisfySchema ==
    \A i \in DOMAIN table :
        /\ table[i].title # None
        /\ Len(table[i].title[1]) <= MaxTitleLen
        /\ table[i].completed # None
        /\ table[i].completed[1] \in BOOLEAN

\* C4: the id create assigns differs from the id of every earlier create,
\* deleted or not.
C4_IdsNeverReassigned ==
    \A k, l \in DOMAIN assigned : k # l => assigned[k] # assigned[l]

\* C5: get, update and delete of an id that is not stored answer 404 and
\* leave the stored todos as they were.
C5_NotFound ==
    (/\ Returned
     /\ req.op \in {"get", "update", "delete"}
     /\ req.todo_id \notin DOMAIN pre) =>
        /\ response.status = 404
        /\ table = pre

\* an update of an id that is not stored, while another todo is
C5_Witness ==
    /\ Returned /\ req.op = "update"
    /\ req.todo_id \notin DOMAIN pre
    /\ DOMAIN pre # {}
    /\ response.status = 404

\* C6: delete of a stored id answers 204 and removes that row and no other;
\* an id that was created and is stored no longer (it was deleted, and no
\* create has brought it back) answers 404 to delete, get and update.
C6_DeleteNotIdempotent ==
    /\ (Returned /\ req.op = "delete" /\ req.todo_id \in DOMAIN pre) =>
          /\ response.status = 204
          /\ DOMAIN table = DOMAIN pre \ {req.todo_id}
          /\ \A i \in DOMAIN table : table[i] = pre[i]
    /\ (/\ Returned
        /\ req.op \in {"get", "update", "delete"}
        /\ req.todo_id \in Range(assigned)
        /\ req.todo_id \notin DOMAIN pre) =>
          response.status = 404

\* a delete of an id that had been created and deleted before
C6_Witness ==
    /\ Returned /\ req.op = "delete"
    /\ req.todo_id \in Range(assigned)
    /\ req.todo_id \notin DOMAIN pre
    /\ response.status = 404

\* position in assigned of the create that made the stored row i
CreatedAt(i) == Max({k \in DOMAIN assigned : assigned[k] = i})

\* the stored todos, most recently created first
MostRecentFirst ==
    LET s == CHOOSE f \in [1..Cardinality(DOMAIN table) -> DOMAIN table] :
                \A k, l \in DOMAIN f : k < l => CreatedAt(f[k]) > CreatedAt(f[l])
    IN  [k \in DOMAIN s |-> table[s[k]]]

\* C7: list(skip, limit), skip >= 0 and limit > 0, returns positions
\* skip .. skip+limit-1 of the stored todos taken most recently created
\* first, and changes nothing in storage.
C7_ListMostRecentFirst ==
    (Returned /\ req.op = "list" /\ req.skip >= 0 /\ req.limit > 0) =>
        /\ table = pre
        /\ response.body =
              SubSeq(MostRecentFirst, req.skip + 1,
                     Min(req.skip + req.limit, Len(MostRecentFirst)))

\* C8: a valid create answers 201 with an entity that has an id, created_at
\* equal to updated_at, completed false when the request left it out, and
\* that entity is the row now stored under its id.
C8_Create ==
    (Returned /\ req.op = "create" /\ TodoCreateValid(req.body)) =>
        /\ response.status = 201
        /\ response.body.id \in Nat
        /\ response.body.created_at = response.body.updated_at
        /\ "completed" \notin req.body.fields_set =>
              response.body.completed = Some(FALSE)
        /\ response.body.id \in DOMAIN table
        /\ table[response.body.id] = response.body

\* a create without completed has been answered
C8_Witness ==
    /\ Returned /\ req.op = "create" /\ response.status = 201
    /\ "completed" \notin req.body.fields_set
    /\ response.body.completed = Some(FALSE)

\* C9: a request in progress holds exactly one open session; once it has
\* finished, whatever its outcome, no session is open and nothing of it is
\* pending; a request that did not succeed leaves the table as it found it.
C9_SessionReleased ==
    /\ pc \in {"handler", "teardown"} =>
          /\ acquired = 1
          /\ open_sessions = 1
          /\ session.state = "open"
    /\ pc = "idle" =>
          /\ acquired = 0
          /\ open_sessions = 0
          /\ session.state = "closed"
          /\ session.dirty = {}
          /\ ~session.in_transaction
    /\ (Returned /\ ~Succeeded) => table = pre

\* a request whose commit failed has finished
C9_Witness ==
    /\ pc = "idle"
    /\ response.status = 500
    /\ open_sessions = 0
    /\ session.state = "closed"

\* the decimal form of todo_id occurs in the text
NamesId(detail, todo_id) ==
    LET n == ToString(todo_id)
    IN  \E k \in 1..Len(detail) : SubSeq(detail, k, k + Len(n) - 1) = n

\* C10: every 404 of get, update and delete carries a message that names the
\* id that was not found.
C10_NotFoundNamesId ==
    (Returned /\ response.status = 404) =>
        NamesId(response.detail, req.todo_id)
====
